---- MODULE Spec2Model ----
(***************************************************************************)
(* Model of the ETL pipeline of the pet-shelter repository                 *)
(* (src/pipeline/pipeline.py) over the two-table store declared in         *)
(* src/backend/app.py.                                                     *)
(*                                                                         *)
(* A pet row keeps the columns the pipeline looks at: id, edad, adoptado.  *)
(* An adoption row keeps id and mascota_id.  The other columns are only    *)
(* copied to the CSV files and never inspected.                            *)
(***************************************************************************)
EXTENDS Integers, Sequences, FiniteSets, TLC

VARIABLES store, pc, run, now, fallos, datos, filas_leidas, reporte,
          datos_transformados, timestamp, archivos_generados, errores,
          fs, dir_existe, error, resultado, exit_status, historial, salidas

vars == <<store, pc, run, now, fallos, datos, filas_leidas, reporte,
          datos_transformados, timestamp, archivos_generados, errores,
          fs, dir_existe, error, resultado, exit_status, historial, salidas>>

(* ----------------------------- bounds --------------------------------- *)
MaxMascotas == 2
MaxAdopciones == 2
MaxFilas == 1
MaxRuns == 2
MaxClock == 2
MaxFallos == 1

(* ------------------------- values of the store ------------------------ *)
\* Python's None / SQL NULL: the value of a nullable column that holds nothing.
None == -1000

tablas_requeridas == {"mascotas", "adopciones"}

\* dict.get(key, default)
Get(r, k, def) == IF k \in DOMAIN r THEN r[k] ELSE def

\* Python truthiness of a Boolean column value (None and 0 are falsy).
Truthy(v) == v # None /\ v # 0

\* Primary keys of an n-row pet table in storage order: 2, 3, ..., so that
\* no key equals the row's position and 1 is the key of no pet.
\* Pet tables with n rows.  conEdad says whether the table has the edad column.
TablaMascotas(n, edades, flags, conEdad) ==
    IF conEdad
    THEN {[i \in 1..n |-> [id |-> i + 1, edad |-> e[i], adoptado |-> a[i]]] :
            e \in [1..n -> edades], a \in [1..n -> flags]}
    ELSE {[i \in 1..n |-> [id |-> i + 1, adoptado |-> a[i]]] :
            a \in [1..n -> flags]}

\* Adoption tables with n rows; mascota_id is UNIQUE and NOT NULL, and no
\* foreign key is enforced, so a reference may dangle.
TablaAdopciones(n, refs) ==
    {[i \in 1..n |-> [id |-> i, mascota_id |-> r[i]]] :
        r \in {q \in [1..n -> refs] : \A i \in 1..n : \A j \in 1..n : q[i] = q[j] => i = j}}

\* The stores with at most maxM pets and maxA adoptions whose references
\* are drawn from refs.  A table that is
\* absent from the catalog has no rows; a store whose database file is
\* missing has nothing.
Stores(maxM, maxA, edades, flags, refs) ==
    {[db_existe |-> TRUE, tablas |-> t, mascotas |-> m, adopciones |-> a] :
        t \in SUBSET tablas_requeridas,
        m \in UNION {TablaMascotas(n, edades, flags, c) :
                        n \in 0..maxM, c \in BOOLEAN},
        a \in UNION {TablaAdopciones(n, refs) : n \in 0..maxA}}

SinBaseDeDatos == [db_existe |-> FALSE, tablas |-> {}, mascotas |-> <<>>, adopciones |-> <<>>]

StoresValidos(maxM, maxA, edades, flags, refs) ==
    {s \in Stores(maxM, maxA, edades, flags, refs) :
        /\ ("mascotas" \notin s.tablas => s.mascotas = <<>>)
        /\ ("adopciones" \notin s.tablas => s.adopciones = <<>>)}
      \cup {SinBaseDeDatos}

\* The rows a SELECT on a table returns, in storage order.
Filas(s, tabla) == IF tabla = "mascotas" THEN s.mascotas ELSE s.adopciones

(* --------------------------- absent values ----------------------------- *)
NoDatos == <<>>
NoReporte == [timestamp |-> None,
              estadisticas |-> [total_mascotas |-> 0, mascotas_adoptadas |-> 0,
                                total_adopciones |-> 0],
              problemas |-> <<>>]
NoError == [tipo |-> "None", faltantes |-> {}]

(* ------------------------------ extraer_datos -------------------------- *)
\* The difference taken the wrong way round.
Faltantes_Mut(s) == s.tablas \ tablas_requeridas

\* tablas_requeridas - tablas_disponibles
Faltantes(s) == tablas_requeridas \ s.tablas

\* The orders in which "for tabla in tablas_requeridas" may visit the set:
\* the iteration order of a set of strings is not fixed.
Ordenes == {<<"mascotas", "adopciones">>, <<"adopciones", "mascotas">>}

\* The dict built by the extraction loop, in insertion order.
Extraidos(s, orden) == [k \in 1..Len(orden) |-> [tabla |-> orden[k], registros |-> Filas(s, orden[k])]]

\* The tables taken by their position in the dict: pets first.
Tabla_Mut(d, nombre) == IF nombre = "mascotas" THEN 1 ELSE 2

\* datos[tabla]
Tabla(d, nombre) == (CHOOSE k \in 1..Len(d) : d[k].tabla = nombre)

Registros(d, nombre) == d[Tabla(d, nombre)].registros

\* Number of rows of the first k tables of the dict.
RECURSIVE FilasDe(_, _)
FilasDe(d, k) == IF k = 0 THEN 0 ELSE FilasDe(d, k - 1) + Len(d[k].registros)

(* ---------------------------- transformar_datos ------------------------ *)
\* Every pet that has the adoptado column counted, whatever the flag.
Adoptadas_Mut(ms) == Cardinality({i \in 1..Len(ms) : "adoptado" \in DOMAIN ms[i]})

\* sum(1 for m in datos["mascotas"] if m.get("adoptado", False))
Adoptadas(ms) == Cardinality({i \in 1..Len(ms) : Truthy(Get(ms[i], "adoptado", 0))})

Estadisticas(d) ==
    [total_mascotas |-> Len(Registros(d, "mascotas")),
     mascotas_adoptadas |-> Adoptadas(Registros(d, "mascotas")),
     total_adopciones |-> Len(Registros(d, "adopciones"))]

\* The upper end of the range excluded: edad < 30.
EdadEnRango_Mut(edad) == 0 <= edad /\ edad < 30

\* 0 <= edad <= 30, for an integer edad
EdadEnRango(edad) == 0 <= edad /\ edad <= 30

\* "0 <= edad" raises TypeError when edad is None.
LanzaTypeError(ms) == \E i \in 1..Len(ms) : Get(ms[i], "edad", 0) = None

ProblemaEdad(m, idx) ==
    [tipo |-> "edad_invalida", tabla |-> "mascotas", id |-> Get(m, "id", idx),
     valor_actual |-> Get(m, "edad", 0),
     mensaje |-> <<"Edad", Get(m, "edad", 0), "fuera de rango (0-30)">>]

\* Validation 1 over the first k pets (enumerate counts from 0).
RECURSIVE ProblemasEdad(_, _)
ProblemasEdad(ms, k) ==
    IF k = 0 THEN <<>>
    ELSE IF ~EdadEnRango(Get(ms[k], "edad", 0))
         THEN Append(ProblemasEdad(ms, k - 1), ProblemaEdad(ms[k], k - 1))
         ELSE ProblemasEdad(ms, k - 1)

\* The positions of the pets taken for their ids.
IdsMascotas_Mut(ms) == {i : i \in 1..Len(ms)}

\* {m.get("id") for m in datos["mascotas"] if m.get("id") is not None}
IdsMascotas(ms) == {Get(ms[i], "id", None) : i \in 1..Len(ms)} \ {None}

ProblemaRelacion(a) ==
    [tipo |-> "relacion_invalida", tabla |-> "adopciones", id |-> Get(a, "id", None),
     mensaje |-> <<"Mascota", Get(a, "mascota_id", None), "no existe">>]

\* Validation 2 over the first k adoptions.
RECURSIVE ProblemasRelacion(_, _, _)
ProblemasRelacion(as, ids, k) ==
    IF k = 0 THEN <<>>
    ELSE IF Get(as[k], "mascota_id", None) \notin ids
         THEN Append(ProblemasRelacion(as, ids, k - 1), ProblemaRelacion(as[k]))
         ELSE ProblemasRelacion(as, ids, k - 1)

Problemas(d) ==
    ProblemasEdad(Registros(d, "mascotas"), Len(Registros(d, "mascotas")))
      \o ProblemasRelacion(Registros(d, "adopciones"),
                           IdsMascotas(Registros(d, "mascotas")),
                           Len(Registros(d, "adopciones")))

\* The report transformar_datos returns when it does not raise.
Reporte(d, t) == [timestamp |-> t, estadisticas |-> Estadisticas(d), problemas |-> Problemas(d)]

\* The data transformar_datos returns: the very object it was given.
DatosTransformados(d) == d

(* ------------------------------ the clock ------------------------------ *)
\* The clock counts half seconds.  isoformat() keeps the whole reading;
\* strftime("%Y%m%d_%H%M%S") keeps the whole seconds only.
Isoformat(t) == t

Strftime(t) == t \div 2

(* ----------------------------- guardar_backups ------------------------- *)
\* What an attempt to write one file may come to: the file is complete; open()
\* raises and the directory is untouched; or open() has created or truncated
\* the file and a later write raises.
Resultados == {"ok", "error_open", "error_write"}

Artefactos == {"mascotas", "adopciones", "reporte_calidad"}

NombreCsv(tabla, ts) == [base |-> tabla, ts |-> ts, ext |-> "csv"]

NombreJson(ts) == [base |-> "reporte_calidad", ts |-> ts, ext |-> "json"]

\* open(nombre, 'w') followed by the writes: the file is created, or replaced.
Escribir(f, nombre, contenido) ==
    [n \in DOMAIN f \cup {nombre} |-> IF n = nombre THEN contenido ELSE f[n]]

\* One attempt to write a file of n entries (rows, or problems of the
\* report); a is [fs, archivos].
Intento(a, nombre, n, res, r) ==
    IF res = "ok"
    THEN [fs |-> Escribir(a.fs, nombre, [run |-> r, estado |-> "completo", entradas |-> n]),
          archivos |-> Append(a.archivos, nombre)]
    ELSE IF res = "error_write"
    THEN [fs |-> Escribir(a.fs, nombre, [run |-> r, estado |-> "parcial", entradas |-> 0]),
          archivos |-> a.archivos]
    ELSE a

\* No table skipped: an empty table gets a header-only file.
SeEscribe_Mut(registros) == TRUE

\* Whether the loop writes a file for this table: an empty table is skipped.
SeEscribe(registros) == registros # <<>>

\* The token taken from the clock anew for every file.
Token_Mut(ts, reloj) == Strftime(reloj)

\* The token a file name is built with: the local timestamp, captured once
\* at the top of guardar_backups, whatever the clock reads by then.
Token(ts, reloj) == ts

\* The clock readings at the writes of one call that captured its token at
\* t: relojes[k] is the time of the write of the k-th table of the dict,
\* relojes[3] the time of the write of the report.  Time does not go back.
Relojes(t) ==
    {q \in [1..3 -> t..MaxClock] : q[1] <= q[2] /\ q[2] <= q[3]}

\* The loop left at the first write that fails: the try around the whole
\* loop instead of around each table.
RECURSIVE GuardarTablas_Mut(_, _, _, _, _, _, _)
GuardarTablas_Mut(d, ts, relojes, res, f, r, k) ==
    IF k = 0 THEN [fs |-> f, archivos |-> <<>>]
    ELSE LET antes == GuardarTablas_Mut(d, ts, relojes, res, f, r, k - 1)
         IN  IF \/ ~SeEscribe(d[k].registros)
                \/ \E j \in 1..(k - 1) : SeEscribe(d[j].registros) /\ res[d[j].tabla] # "ok"
             THEN antes
             ELSE Intento(antes, NombreCsv(d[k].tabla, Token(ts, relojes[k])),
                          Len(d[k].registros), res[d[k].tabla], r)

\* The loop over datos.items(), first k tables, all named with the token ts.
RECURSIVE GuardarTablas(_, _, _, _, _, _, _)
GuardarTablas(d, ts, relojes, res, f, r, k) ==
    IF k = 0 THEN [fs |-> f, archivos |-> <<>>]
    ELSE LET antes == GuardarTablas(d, ts, relojes, res, f, r, k - 1)
         IN  IF ~SeEscribe(d[k].registros) THEN antes
             ELSE Intento(antes, NombreCsv(d[k].tabla, Token(ts, relojes[k])),
                          Len(d[k].registros), res[d[k].tabla], r)

\* The whole of guardar_backups: the tables, then the quality report.
Guardar(d, rep, ts, relojes, res, f, r) ==
    Intento(GuardarTablas(d, ts, relojes, res, f, r, Len(d)),
            NombreJson(Token(ts, relojes[3])),
            Len(rep.problemas), res["reporte_calidad"], r)

\* The outcomes of the writes guardar_backups attempts on d; a write that is
\* not attempted has no outcome of its own.
Desenlaces(d) ==
    {res \in [Artefactos -> Resultados] :
        \A k \in 1..Len(d) : ~SeEscribe(d[k].registros) => res[d[k].tabla] = "ok"}

\* The writes whose except clause ran ("Error guardando ...").
Fallidos(res) == {a \in Artefactos : res[a] # "ok"}

NumFallos(res) == Cardinality(Fallidos(res))

(* ------------------------------- the state ----------------------------- *)
Edades == {-1, 0, 30, 31, None}
Flags == {0, 1}

InitComun ==
    /\ pc = "Inactivo"
    /\ run = 0
    /\ now = 0
    /\ fallos = 0
    /\ datos = NoDatos
    /\ filas_leidas = 0
    /\ reporte = NoReporte
    /\ datos_transformados = NoDatos
    /\ timestamp = None
    /\ archivos_generados = <<>>
    /\ errores = {}
    /\ fs = <<>>
    /\ dir_existe = FALSE
    /\ error = NoError
    /\ resultado = "None"
    /\ exit_status = None
    /\ historial = <<>>
    /\ salidas = {}

\* The pipeline over small stores.
Init ==
    /\ store \in StoresValidos(MaxFilas, MaxFilas, {31, None}, {1}, 1..2)
    /\ InitComun

\* The extraction and the validation over every store within the bounds.
InitT ==
    /\ store \in StoresValidos(MaxMascotas, MaxAdopciones, Edades, Flags, 1..(MaxMascotas + 1))
    /\ InitComun

(* ------------------------------ the actions ---------------------------- *)
\* The except clause without its return False.
Falla_Mut(tipo, faltantes) ==
    /\ pc' = "Failed"
    /\ error' = [tipo |-> tipo, faltantes |-> faltantes]
    /\ resultado' = "None"

\* The except clause of ejecutar_pipeline.
Falla(tipo, faltantes) ==
    /\ pc' = "Failed"
    /\ error' = [tipo |-> tipo, faltantes |-> faltantes]
    /\ resultado' = "False"

\* python pipeline.py: a new process calls ejecutar_pipeline.
Iniciar ==
    /\ pc = "Inactivo"
    /\ run < MaxRuns
    /\ run' = run + 1
    /\ pc' = "Configuring"
    /\ datos' = NoDatos
    /\ filas_leidas' = 0
    /\ reporte' = NoReporte
    /\ datos_transformados' = NoDatos
    /\ timestamp' = None
    /\ archivos_generados' = <<>>
    /\ errores' = {}
    /\ error' = NoError
    /\ resultado' = "None"
    /\ exit_status' = None
    /\ UNCHANGED <<store, now, fallos, fs, dir_existe, historial, salidas>>

\* configurar_rutas and create_engine.
Configurar ==
    /\ pc = "Configuring"
    /\ IF ~store.db_existe
       THEN /\ Falla("FileNotFoundError", {})
            /\ UNCHANGED dir_existe
       ELSE /\ dir_existe' = TRUE
            /\ pc' = "Extracting"
            /\ UNCHANGED <<error, resultado>>
    /\ UNCHANGED <<store, run, now, fallos, datos, filas_leidas, reporte,
                   datos_transformados, timestamp, archivos_generados, errores, fs,
                   exit_status, historial, salidas>>

\* extraer_datos: the schema check, then one SELECT per required table.
Extraer ==
    /\ pc = "Extracting"
    /\ IF Faltantes(store) # {}
       THEN /\ Falla("ValueError", Faltantes(store))
            /\ UNCHANGED <<datos, filas_leidas, fallos>>
       ELSE \E orden \in Ordenes :
              \/ /\ datos' = Extraidos(store, orden)
                 /\ filas_leidas' = FilasDe(Extraidos(store, orden), Len(orden))
                 /\ pc' = "Validating"
                 /\ UNCHANGED <<error, resultado, fallos>>
              \/ \E k \in 1..Len(orden) :
                    /\ fallos < MaxFallos
                    /\ fallos' = fallos + 1
                    /\ filas_leidas' = FilasDe(Extraidos(store, orden), k - 1)
                    /\ Falla("OperationalError", {})
                    /\ UNCHANGED datos
    /\ UNCHANGED <<store, run, now, reporte, datos_transformados, timestamp,
                   archivos_generados, errores, fs, dir_existe, exit_status, historial, salidas>>

\* transformar_datos.
Transformar ==
    /\ pc = "Validating"
    /\ \E t \in now..MaxClock :
          /\ now' = t
          /\ IF LanzaTypeError(Registros(datos, "mascotas"))
             THEN /\ Falla("TypeError", {})
                  /\ UNCHANGED <<reporte, datos_transformados, historial>>
             ELSE /\ reporte' = Reporte(datos, Isoformat(t))
                  /\ datos_transformados' = DatosTransformados(datos)
                  /\ historial' = Append(historial,
                                         [store |-> store,
                                          estadisticas |-> reporte'.estadisticas,
                                          problemas |-> reporte'.problemas])
                  /\ pc' = "Persisting"
                  /\ UNCHANGED <<error, resultado>>
    /\ UNCHANGED <<store, run, fallos, datos, filas_leidas, timestamp,
                   archivos_generados, errores, fs, dir_existe, exit_status, salidas>>

\* guardar_backups, and the return True that follows it.
GuardarBackups ==
    /\ pc = "Persisting"
    /\ \E res \in Desenlaces(datos_transformados) :
          /\ fallos + NumFallos(res) <= MaxFallos
          /\ fallos' = fallos + NumFallos(res)
          /\ errores' = Fallidos(res)
          /\ \E t \in now..MaxClock : \E relojes \in Relojes(t) :
                /\ now' = relojes[3]
                /\ timestamp' = Strftime(t)
                /\ LET g == Guardar(datos_transformados, reporte, Strftime(t), relojes,
                                    res, fs, run)
                   IN  /\ fs' = g.fs
                       /\ archivos_generados' = g.archivos
    /\ pc' = "Completed"
    /\ resultado' = "True"
    /\ UNCHANGED <<store, run, datos, filas_leidas, reporte, datos_transformados,
                   dir_existe, error, exit_status, historial, salidas>>

\* The status the process ends with: the value ejecutar_pipeline returned is
\* dropped by the __main__ block.
ExitStatus(r) == 0

\* The script reaches its end and the process exits.
Salir ==
    /\ pc \in {"Completed", "Failed"}
    /\ exit_status' = ExitStatus(resultado)
    /\ salidas' = salidas \cup {<<resultado, exit_status'>>}
    /\ pc' = "Inactivo"
    /\ UNCHANGED <<store, run, now, fallos, datos, filas_leidas, reporte,
                   datos_transformados, timestamp, archivos_generados, errores, fs,
                   dir_existe, error, resultado, historial>>

\* POST /api/mascotas of the backend, between two runs: a new pet of age 0.
create_mascota ==
    /\ pc = "Inactivo"
    /\ store.db_existe
    /\ "mascotas" \in store.tablas
    /\ Len(store.mascotas) < MaxFilas
    /\ \A i \in 1..Len(store.mascotas) : "edad" \in DOMAIN store.mascotas[i]
    /\ store' = [store EXCEPT !.mascotas =
                    Append(@, [id |-> Len(@) + 2, edad |-> 0, adoptado |-> 0])]
    /\ UNCHANGED <<pc, run, now, fallos, datos, filas_leidas, reporte,
                   datos_transformados, timestamp, archivos_generados, errores, fs,
                   dir_existe, error, resultado, exit_status, historial, salidas>>

Next ==
    \/ Iniciar
    \/ Configurar
    \/ Extraer
    \/ Transformar
    \/ GuardarBackups
    \/ Salir
    \/ create_mascota

Spec == Init /\ [][Next]_vars

NextT ==
    \/ Iniciar
    \/ Configurar
    \/ Extraer
    \/ Transformar

SpecT == InitT /\ [][NextT]_vars

(* ------------------------- properties of the report -------------------- *)
\* transformar_datos has returned a report in this run.
HayReporte == reporte.timestamp # None

\* transformar_datos has been called in this run, and has returned or raised.
TransformacionHecha == datos # NoDatos /\ pc # "Validating"

MascotasExtraidas == Registros(datos, "mascotas")

AdopcionesExtraidas == Registros(datos, "adopciones")

\* The positions in the report of the problems of one kind about one id.
ProblemasDe(tipo, id) ==
    {k \in 1..Len(reporte.problemas) :
        reporte.problemas[k].tipo = tipo /\ reporte.problemas[k].id = id}

\* The pet has no age: the column is absent, or it holds NULL.
EdadFaltante(m) == "edad" \notin DOMAIN m \/ m.edad = None

\* C1: in every report, a pet whose age is an integer in [0, 30] has no
\* edad_invalida problem, and a pet whose age is an integer outside [0, 30]
\* has exactly one, carrying table 'mascotas', the pet's id and the age.
C1_ReglaEdad ==
    HayReporte =>
      \A i \in 1..Len(MascotasExtraidas) :
        LET m == MascotasExtraidas[i]
        IN  ~EdadFaltante(m) =>
              IF m.edad >= 0 /\ m.edad <= 30
              THEN ProblemasDe("edad_invalida", m.id) = {}
              ELSE \E k \in 1..Len(reporte.problemas) :
                      /\ ProblemasDe("edad_invalida", m.id) = {k}
                      /\ reporte.problemas[k].tabla = "mascotas"
                      /\ reporte.problemas[k].valor_actual = m.edad

\* A report over a pet aged 30, kept, and a pet aged 31, flagged.
C1_Witness ==
    /\ HayReporte
    /\ \E i \in 1..Len(MascotasExtraidas) :
          ~EdadFaltante(MascotasExtraidas[i]) /\ MascotasExtraidas[i].edad = 30
    /\ \E i \in 1..Len(MascotasExtraidas) :
          /\ ~EdadFaltante(MascotasExtraidas[i]) /\ MascotasExtraidas[i].edad = 31
          /\ ProblemasDe("edad_invalida", MascotasExtraidas[i].id) # {}

\* C2: in every report, an adoption whose mascota_id is the id of no pet of
\* the same extraction result has exactly one relacion_invalida problem, and
\* an adoption whose mascota_id is the id of a pet has none.
C2_ReglaRelacion ==
    HayReporte =>
      \A j \in 1..Len(AdopcionesExtraidas) :
        LET a == AdopcionesExtraidas[j]
        IN  IF \E i \in 1..Len(MascotasExtraidas) : MascotasExtraidas[i].id = a.mascota_id
            THEN ProblemasDe("relacion_invalida", a.id) = {}
            ELSE Cardinality(ProblemasDe("relacion_invalida", a.id)) = 1

\* A report over one adoption of an existing pet and one dangling adoption.
C2_Witness ==
    /\ HayReporte
    /\ \E j \in 1..Len(AdopcionesExtraidas) :
          /\ \E i \in 1..Len(MascotasExtraidas) :
                MascotasExtraidas[i].id = AdopcionesExtraidas[j].mascota_id
          /\ ProblemasDe("relacion_invalida", AdopcionesExtraidas[j].id) = {}
    /\ \E j \in 1..Len(AdopcionesExtraidas) :
          /\ \A i \in 1..Len(MascotasExtraidas) :
                MascotasExtraidas[i].id # AdopcionesExtraidas[j].mascota_id
          /\ ProblemasDe("relacion_invalida", AdopcionesExtraidas[j].id) # {}

\* C3: a pet whose age is missing (column absent, or NULL) is validated as if
\* its age were 0: transformar_datos completes and reports no edad_invalida
\* problem for it.
C3_EdadFaltanteComoCero ==
    (TransformacionHecha /\ \E i \in 1..Len(MascotasExtraidas) : EdadFaltante(MascotasExtraidas[i]))
      => /\ error = NoError
         /\ HayReporte
         /\ \A i \in 1..Len(MascotasExtraidas) :
              EdadFaltante(MascotasExtraidas[i])
                => ProblemasDe("edad_invalida", MascotasExtraidas[i].id) = {}

\* C9: in every report total_mascotas is the number of pets, total_adopciones
\* the number of adoptions, mascotas_adoptadas the number of pets whose
\* adoption flag is true, and mascotas_adoptadas <= total_mascotas, whether
\* or not the report holds problems.
C9_Estadisticas ==
    HayReporte =>
      /\ reporte.estadisticas.total_mascotas = Len(MascotasExtraidas)
      /\ reporte.estadisticas.total_adopciones = Len(AdopcionesExtraidas)
      /\ reporte.estadisticas.mascotas_adoptadas =
            Cardinality({i \in 1..Len(MascotasExtraidas) : MascotasExtraidas[i].adoptado = 1})
      /\ reporte.estadisticas.mascotas_adoptadas <= reporte.estadisticas.total_mascotas

\* A report with problems over two pets of which exactly one is adopted.
C9_Witness ==
    /\ HayReporte
    /\ reporte.problemas # <<>>
    /\ reporte.estadisticas.total_mascotas = 2
    /\ reporte.estadisticas.mascotas_adoptadas = 1
    /\ reporte.estadisticas.total_adopciones = 1

(* ------------------------- properties of the run ----------------------- *)
\* The stage changes ejecutar_pipeline can make, with the start and the end
\* of the process.
Transiciones ==
    {<<"Inactivo", "Configuring">>,
     <<"Configuring", "Extracting">>, <<"Configuring", "Failed">>,
     <<"Extracting", "Validating">>, <<"Extracting", "Failed">>,
     <<"Validating", "Persisting">>, <<"Validating", "Failed">>,
     <<"Persisting", "Completed">>,
     <<"Completed", "Inactivo">>, <<"Failed", "Inactivo">>}

\* The files in the backups directory that this run has written.
ArchivosDelRun == {n \in DOMAIN fs : fs[n].run = run}

\* C4: the stages run in the order Configuring, Extracting, Validating,
\* Persisting, Completed, each entered only when the one before has
\* delivered its result; a failing stage ends the run in Failed, returning
\* False, with guardar_backups never started and no file written by the run.
C4_OrdenDeEtapas ==
    [][/\ (pc' # pc => <<pc, pc'>> \in Transiciones)
       /\ (pc' = "Extracting" => dir_existe')
       /\ (pc' = "Validating" => datos' # NoDatos)
       /\ (pc' = "Persisting" => reporte'.timestamp # None /\ datos_transformados' # NoDatos)
       /\ (pc' = "Completed" => resultado' = "True")
       /\ (error' # NoError => pc' \in {"Failed", "Inactivo"})
       /\ (pc' = "Failed" =>
             /\ resultado' = "False"
             /\ timestamp' = None
             /\ archivos_generados' = <<>>
             /\ fs' = fs
             /\ \A n \in DOMAIN fs' : fs'[n].run # run')]_vars

\* A second run whose extraction failed, after a first run that wrote files.
C4_Witness ==
    /\ pc = "Failed"
    /\ error.tipo = "OperationalError"
    /\ run = 2
    /\ fs # <<>>
    /\ ArchivosDelRun = {}

\* C5: over a store that lacks a required table, extraer_datos fails before
\* it reads a row, with an error naming exactly the missing tables; the run
\* ends Failed and no file is written.
C5_TablaFaltante ==
    (store.db_existe /\ tablas_requeridas \ store.tablas # {}
        /\ run >= 1 /\ pc \notin {"Configuring", "Extracting"})
      => /\ pc \in {"Failed", "Inactivo"}
         /\ resultado = "False"
         /\ error = [tipo |-> "ValueError", faltantes |-> tablas_requeridas \ store.tablas]
         /\ filas_leidas = 0
         /\ datos = NoDatos
         /\ fs = <<>>

\* A failed run over a store that has pets and no adoptions table.
C5_Witness ==
    /\ pc = "Failed"
    /\ store.tablas = {"mascotas"}
    /\ store.mascotas # <<>>
    /\ error.faltantes = {"adopciones"}

\* A completed run over at least one pet and no adoption.
EscenarioTablaVacia ==
    /\ pc = "Completed"
    /\ Len(MascotasExtraidas) >= 1
    /\ AdopcionesExtraidas = <<>>

\* The run has written this file completely, with n entries.
Producido(nombre, n) ==
    /\ nombre \in DOMAIN fs
    /\ fs[nombre] = [run |-> run, estado |-> "completo", entradas |-> n]
    /\ \E k \in 1..Len(archivos_generados) : archivos_generados[k] = nombre

SinArchivoDeAdopciones ==
    /\ \A n \in ArchivosDelRun : n.base # "adopciones"
    /\ \A k \in 1..Len(archivos_generados) : archivos_generados[k].base # "adopciones"

C7_EstadoDeSalida ==
    \A a \in salidas : \A b \in salidas : a[1] # b[1] => a[2] # b[2]

\* C8: no step overwrites, truncates or removes a file that is already in
\* the backups directory: every file a run writes is a new file.
C8_SoloAgrega ==
    [][\A n \in DOMAIN fs : n \in DOMAIN fs' /\ fs'[n] = fs[n]]_vars

\* C10: two runs over the same store yield reports with the same statistics
\* and the same problems in the same order, and in each run the
\* transformation returns the extracted records as they were.
C10_Idempotencia ==
    /\ \A i \in 1..Len(historial) : \A j \in 1..Len(historial) :
          historial[i].store = historial[j].store
            => /\ historial[i].estadisticas = historial[j].estadisticas
               /\ historial[i].problemas = historial[j].problemas
    /\ (HayReporte => datos_transformados = datos)

\* Two reports over the same store, each with an invalid age followed by an
\* invalid relation, the second taken at a later time than the first file.
C10_Witness ==
    /\ Len(historial) = 2
    /\ historial[1].store = historial[2].store
    /\ Len(historial[2].problemas) = 2
    /\ historial[2].problemas[1].tipo = "edad_invalida"
    /\ historial[2].problemas[2].tipo = "relacion_invalida"
    /\ HayReporte
    /\ reporte.timestamp > 0

(* --------------------- properties of guardar_backups ------------------- *)
\* C11: every file one call of guardar_backups writes, complete or not,
\* carries in its name the one token the call captured at its start, however
\* late the clock reads when the file is written.
C11_TokenCompartido ==
    pc = "Completed" =>
      /\ \A k \in 1..Len(archivos_generados) : archivos_generados[k].ts = timestamp
      /\ \A n \in ArchivosDelRun : n.ts = timestamp
      /\ \A k \in 1..Len(archivos_generados) :
            archivos_generados[k].ext = (IF archivos_generados[k].base = "reporte_calidad"
                                         THEN "json" ELSE "csv")

\* A call that wrote the two tables and the report and ended in a later
\* second than the one of its token.
C11_Witness ==
    /\ pc = "Completed"
    /\ Len(archivos_generados) = 3
    /\ Cardinality(ArchivosDelRun) = 3
    /\ Strftime(now) > timestamp

\* The artefacts guardar_backups attempts to write in this run: the
\* non-empty tables and the report.
Intentados ==
    {a \in {"mascotas", "adopciones"} : Registros(datos_transformados, a) # <<>>}
      \cup {"reporte_calidad"}

\* C12: a failing write is caught and logged and stops nothing: every other
\* non-empty table and the report are still written, archivos_generados
\* lists exactly the files whose write completed, and the run is Completed
\* with True returned.
C12_FalloAislado ==
    pc = "Completed" =>
      /\ resultado = "True"
      /\ error = NoError
      /\ errores \subseteq Intentados
      /\ \A a \in Intentados \ errores :
            \E k \in 1..Len(archivos_generados) :
               /\ archivos_generados[k].base = a
               /\ archivos_generados[k] \in DOMAIN fs
               /\ fs[archivos_generados[k]].run = run
               /\ fs[archivos_generados[k]].estado = "completo"
      /\ \A k \in 1..Len(archivos_generados) :
            archivos_generados[k].base \in Intentados \ errores
      /\ Len(archivos_generados) = Cardinality(Intentados \ errores)
      /\ \A n \in ArchivosDelRun :
            fs[n].estado = "completo" <=> n.base \notin errores

\* The write of the first table of the dict failed, and the second table
\* and the report were written all the same.
C12_Witness ==
    /\ pc = "Completed"
    /\ resultado = "True"
    /\ Intentados = Artefactos
    /\ errores = {datos_transformados[1].tabla}
    /\ Len(archivos_generados) = 2

====
